---- MODULE Spec2Model ----
\* Model of src/disks/sys/linux/iostats.rs: get_iostats and
\* get_iostats_physical reading /proc/diskstats.
\*
\* Text is modelled as sequences of one-character strings.  An i64 is
\* modelled as three limbs <<hi, mid, lo>> with value
\* hi * 2^42 + mid * 2^21 + lo, hi in -2^21 .. 2^21 - 1 and mid, lo in
\* 0 .. 2^21 - 1, so that the full 64-bit range and its overflow are kept.
EXTENDS Integers, Sequences, FiniteSets, TLC

\* ---------------------------------------------------------------------
\* Bounds of the explored inputs
\* ---------------------------------------------------------------------

\* Largest number of lines in /proc/diskstats (specification Spec).
MaxLines == 2

\* Largest number of fields on a generated line (specification SpecRow).
MaxFields == 15

\* ---------------------------------------------------------------------
\* Characters and tokens
\* ---------------------------------------------------------------------

\* The byte 0, which is not whitespace and may not occur in a C string.
NUL == "NUL"

Digits == <<"0", "1", "2", "3", "4", "5", "6", "7", "8", "9">>

\* Decimal rendering of a natural number, as the kernel prints %lu / %d.
RECURSIVE Dec(_)
Dec(n) == IF n < 10 THEN <<Digits[n + 1]>>
          ELSE Append(Dec(n \div 10), Digits[(n % 10) + 1])

\* Left-pads a token with spaces to the given width (printf %4d, %7d).
RECURSIVE Pad(_, _)
Pad(tok, width) == IF Len(tok) >= width THEN tok ELSE Pad(<<" ">> \o tok, width)

\* One line of /proc/diskstats as the kernel prints it:
\* "%4d %7d %s %lu %lu ...\n".
RECURSIVE JoinFrom(_, _)
JoinFrom(row, i) == IF i > Len(row) THEN <<>>
                    ELSE <<" ">> \o (IF i = 2 THEN Pad(row[i], 7) ELSE row[i])
                         \o JoinFrom(row, i + 1)

Render(row) == IF row = <<>> THEN <<"\n">>
               ELSE Pad(row[1], 4) \o JoinFrom(row, 2) \o <<"\n">>

\* ---------------------------------------------------------------------
\* 64-bit signed integers
\* ---------------------------------------------------------------------

Limb == 2^21

I64Zero == <<0, 0, 0>>

\* The i64 of an integer small enough for 32-bit arithmetic.
I64Of(n) == <<IF n < 0 THEN -1 ELSE 0, (n \div Limb) % Limb, n % Limb>>

wrap_hi(p) == ((p + Limb) % (2 * Limb)) - Limb

\* v * k for 0 <= k <= 512: the wrapped product and whether it overflowed.
i64_mul(v, k) ==
    LET p0 == v[3] * k
        p1 == v[2] * k + (p0 \div Limb)
        p2 == v[1] * k + (p1 \div Limb)
    IN  [overflow |-> p2 < -Limb \/ p2 > Limb - 1,
         value |-> <<wrap_hi(p2), p1 % Limb, p0 % Limb>>]

\* v + d for -9 <= d <= 9: the wrapped sum and whether it overflowed.
i64_add(v, d) ==
    LET s0 == v[3] + d
        s1 == v[2] + (s0 \div Limb)
        s2 == v[1] + (s1 \div Limb)
    IN  [overflow |-> s2 < -Limb \/ s2 > Limb - 1,
         value |-> <<wrap_hi(s2), s1 % Limb, s0 % Limb>>]

i64_is_negative(v) == v[1] < 0

\* char::to_digit(10): the digit's value, or -1 for None.
to_digit(c) == IF \E d \in 1..10 : Digits[d] = c
               THEN (CHOOSE d \in 1..10 : Digits[d] = c) - 1
               ELSE -1

ParseErr == [ok |-> FALSE, value |-> I64Zero]

\* The digit loop of i64::from_str_radix: checked_mul(10), then
\* checked_add(digit) for a positive and checked_sub(digit) for a negative
\* number; an invalid digit or an overflow is an Err.
RECURSIVE from_digits(_, _, _, _)
from_digits(s, i, neg, acc) ==
    IF i > Len(s) THEN [ok |-> TRUE, value |-> acc]
    ELSE IF to_digit(s[i]) < 0 THEN ParseErr
    ELSE LET m == i64_mul(acc, 10)
             a == i64_add(m.value, IF neg THEN -to_digit(s[i]) ELSE to_digit(s[i]))
         IN  IF m.overflow \/ a.overflow THEN ParseErr
             ELSE from_digits(s, i + 1, neg, a.value)

\* Faulty variant of parse_i64: an unparsable field counts as 0 (unwrap_or(0)).
parse_i64_lenient(s) ==
    IF s = <<>> \/ s = <<"+">> \/ s = <<"-">> THEN [ok |-> TRUE, value |-> I64Zero]
    ELSE LET r == IF s[1] = "-" THEN from_digits(s, 2, TRUE, I64Zero)
                  ELSE IF s[1] = "+" THEN from_digits(s, 2, FALSE, I64Zero)
                  ELSE from_digits(s, 1, FALSE, I64Zero)
         IN  IF r.ok THEN r ELSE [ok |-> TRUE, value |-> I64Zero]

\* str::parse::<i64>(): an optional sign followed by at least one digit.
parse_i64(s) ==
    IF s = <<>> \/ s = <<"+">> \/ s = <<"-">> THEN ParseErr
    ELSE IF s[1] = "-" THEN from_digits(s, 2, TRUE, I64Zero)
    ELSE IF s[1] = "+" THEN from_digits(s, 2, FALSE, I64Zero)
    ELSE from_digits(s, 1, FALSE, I64Zero)

\* ---------------------------------------------------------------------
\* Line decoding
\* ---------------------------------------------------------------------

\* char::is_whitespace, on the characters of the model.
is_whitespace(c) == c \in {" ", "\t", "\n", "\r", "\f"}

\* The fields of s from position i on: the next field runs from the first
\* character b that is not whitespace to the last one e before whitespace
\* or the end of s.
RECURSIVE split_from(_, _)
split_from(s, i) ==
    IF \A j \in i..Len(s) : is_whitespace(s[j]) THEN <<>>
    ELSE LET b == CHOOSE j \in i..Len(s) :
                      ~is_whitespace(s[j]) /\ \A k \in i..(j - 1) : is_whitespace(s[k])
             e == CHOOSE j \in b..Len(s) :
                      /\ j = Len(s) \/ is_whitespace(s[j + 1])
                      /\ \A k \in b..j : ~is_whitespace(s[k])
         IN  <<SubSeq(s, b, e)>> \o split_from(s, e + 1)

\* str::split_whitespace(): the non-empty runs of non-whitespace, in order.
\* The iterator is modelled by the sequence of items it has left.
split_whitespace(s) == split_from(s, 1)

\* Iterator::nth(n): skips n items and yields the next one, if any; rest is
\* what the iterator has left afterwards.
nth(it, n) ==
    IF Len(it) > n
    THEN [some |-> TRUE, item |-> it[n + 1], rest |-> SubSeq(it, n + 2, Len(it))]
    ELSE [some |-> FALSE, item |-> <<>>, rest |-> <<>>]

\* Iterator::count(): the number of items left.
count(it) == Len(it)

\* The arguments of the three fields.nth() calls and the count() threshold.
name_nth == 2
byte_r_nth == 2

\* Faulty variant of byte_w_nth: the field right after the sectors read.
byte_w_nth_next == 1 - 1

byte_w_nth == 3
min_remaining == 4

\* Faulty variant of SECTOR_SIZE: a 256-byte sector.
SECTOR_SIZE_256 == 2^8

\* Bytes per sector, the factor of both multiplications.
SECTOR_SIZE == 512

\* ---------------------------------------------------------------------
\* The physical-device filter
\* ---------------------------------------------------------------------

SysBlock == <<"/", "s", "y", "s", "/", "b", "l", "o", "c", "k", "/">>
SlashDevice == <<"/", "d", "e", "v", "i", "c", "e">>

\* str::replace(from, to) for one-character patterns: every occurrence.
RECURSIVE replace(_, _, _)
replace(s, from, to) ==
    IF s = <<>> THEN <<>>
    ELSE <<IF Head(s) = from THEN to ELSE Head(s)>> \o replace(Tail(s), from, to)

\* Faulty variant of sysfs_path: the device name is used as it is.
sysfs_path_raw(name) == SysBlock \o name \o SlashDevice

\* format!("/sys/block/{}/device", name.replace("/", "!"))
sysfs_path(name) == SysBlock \o replace(name, "/", "!") \o SlashDevice

\* Faulty variant of CString_new: the string is cut at the first 0 byte.
CString_new_truncating(s) ==
    [ok |-> TRUE,
     value |-> IF \E i \in 1..Len(s) : s[i] = NUL
               THEN SubSeq(s, 1, (CHOOSE i \in 1..Len(s) :
                                     s[i] = NUL /\ \A j \in 1..(i - 1) : s[j] # NUL) - 1)
               ELSE s]

\* CString::new(s): Err(NulError) when s contains a 0 byte.
CString_new(s) == [ok |-> \A i \in 1..Len(s) : s[i] # NUL, value |-> s]

\* ---------------------------------------------------------------------
\* State
\* ---------------------------------------------------------------------

VARIABLES
    diskstats,        \* the kernel's table: one sequence of fields per line
    file,             \* /proc/diskstats: the lines, each ending in "\n"
    fault,            \* the failing I/O call: 0 open, k the k-th read_line, -1 none
    sysfs,            \* the paths that exist on the filesystem
    overflow_checks,  \* whether the build panics on arithmetic overflow
    pc,               \* per call: "start", "loop", "returned" or "panicked"
    line_no,          \* per call: number of lines read so far
    viostats,         \* per call: the local Vec<IoStats>
    result,           \* per call: what the caller receives
    accessed          \* the paths handed to libc::access, in order

vars == <<diskstats, file, fault, sysfs, overflow_checks,
          pc, line_no, viostats, result, accessed>>

env == <<diskstats, file, fault, sysfs, overflow_checks>>

Calls == {"get_iostats", "get_iostats_physical"}

Pending == [tag |-> "Pending", value |-> <<>>, cause |-> "none"]
Ok(v) == [tag |-> "Ok", value |-> v, cause |-> "none"]
Err(cause) == [tag |-> "Err", value |-> <<>>, cause |-> cause]
Panic(cause) == [tag |-> "Panic", value |-> <<>>, cause |-> cause]

\* Faulty variant of access: every path is reported to exist.
access_always(path) == 0

\* libc::access(path, F_OK): 0 when the path exists, -1 otherwise.
access(path) == IF path \in sysfs THEN 0 ELSE -1

\* File::open("/proc/diskstats")
File_open == IF fault = 0 THEN [ok |-> FALSE] ELSE [ok |-> TRUE]

\* Faulty variant of read_line: a failed read is taken for the end of the file.
read_line_swallow(n) ==
    IF fault = n THEN [ok |-> TRUE, bytes |-> 0, line |-> <<>>]
    ELSE IF n > Len(file) THEN [ok |-> TRUE, bytes |-> 0, line |-> <<>>]
    ELSE [ok |-> TRUE, bytes |-> Len(file[n]), line |-> file[n]]

\* BufRead::read_line for the n-th call on a freshly cleared buffer:
\* Err on an I/O failure, Ok(0) at the end of the file, else the line.
read_line(n) ==
    IF fault = n THEN [ok |-> FALSE, bytes |-> 0, line |-> <<>>]
    ELSE IF n > Len(file) THEN [ok |-> TRUE, bytes |-> 0, line |-> <<>>]
    ELSE [ok |-> TRUE, bytes |-> Len(file[n]), line |-> file[n]]

\* x.parse::<i64>().unwrap() * 512: the value, or the panic it raises.
\* The multiplication panics on overflow when the build checks overflow
\* and wraps otherwise.
sectors_to_bytes(tok) ==
    LET p == parse_i64(tok)
        m == i64_mul(p.value, SECTOR_SIZE)
    IN  IF ~p.ok THEN [panic |-> TRUE, cause |-> "parse", value |-> I64Zero]
        ELSE IF m.overflow /\ overflow_checks
             THEN [panic |-> TRUE, cause |-> "overflow", value |-> I64Zero]
        ELSE [panic |-> FALSE, cause |-> "none", value |-> m.value]

\* The struct literal IoStats { device_name, bytes_read, bytes_wrtn }, its
\* fields evaluated in order.
new_IoStats(name, byte_r, byte_w) ==
    LET r == sectors_to_bytes(byte_r)
        w == sectors_to_bytes(byte_w)
    IN  IF r.panic THEN [panic |-> TRUE, cause |-> r.cause, value |-> <<>>]
        ELSE IF w.panic THEN [panic |-> TRUE, cause |-> w.cause, value |-> <<>>]
        ELSE [panic |-> FALSE, cause |-> "none",
              value |-> [device_name |-> name,
                         bytes_read |-> r.value,
                         bytes_wrtn |-> w.value]]

\* ---------------------------------------------------------------------
\* Inputs
\* ---------------------------------------------------------------------

\* Device names: a plain one, one with slashes (as cciss/c0d0) and one
\* with an embedded 0 byte.
NameSda == <<"s", "d", "a">>
NameSlash == <<"c", "/", "0", "/", "d">>
NameNul == <<"s", NUL, "a">>
Names == {NameSda, NameSlash, NameNul}

\* Sector counts whose product with 512 fits 32 bits.
SmallCounts == {0, 1600, 131072, 262144}

Tok2p54 == <<"1","8","0","1","4","3","9","8","5","0","9","4","8","1","9","8","4">>
TokI64Max == <<"9","2","2","3","3","7","2","0","3","6","8","5","4","7","7","5","8","0","7">>
Tok2p63 == <<"9","2","2","3","3","7","2","0","3","6","8","5","4","7","7","5","8","0","8">>
TokI64Min == <<"-">> \o Tok2p63
TokMinus5 == <<"-", "5">>
TokPlus7 == <<"+", "7">>
TokX == <<"x">>
Tok12a == <<"1", "2", "a">>
TokMinus == <<"-">>

\* Sector-count fields: decimal counts, signed counts, counts whose product
\* with 512 leaves the i64 range, counts that leave it themselves, and text.
SectorTokens == {Dec(n) : n \in SmallCounts}
                \cup {Tok2p54, TokI64Max, Tok2p63, TokI64Min,
                      TokMinus5, TokPlus7, TokX, Tok12a, TokMinus}

\* A line of the kernel's table with 20 fields, all different where the
\* decoding could confuse them.
FullRow(name, rd, wr) ==
    <<Dec(8), Dec(0), name, Dec(4821), Dec(1382), rd, Dec(2100), Dec(3391),
      Dec(2764), wr, Dec(5012), Dec(0), Dec(3210), Dec(7112), Dec(11),
      Dec(12), Dec(13), Dec(14), Dec(15), Dec(16)>>

Row(n, name, rd, wr) == SubSeq(FullRow(name, rd, wr), 1, IF n < 20 THEN n ELSE 20)

\* The example line: 8 0 sda 100 0 1600 50 0 0 0 0 0 20 50
ExampleRow == <<Dec(8), Dec(0), NameSda, Dec(100), Dec(0), Dec(1600), Dec(50),
                Dec(0), Dec(0), Dec(0), Dec(0), Dec(0), Dec(20), Dec(50)>>

\* Lines of every length with numeric and non-numeric sector fields, and
\* complete lines with every sector token in either place.
AllRows ==
    {Row(n, name, rw[1], rw[2]) :
        n \in 0..MaxFields, name \in Names,
        rw \in {<<Dec(262144), Dec(131072)>>, <<TokX, Dec(131072)>>,
                <<Dec(262144), Tok12a>>}}
    \cup {Row(14, name, rd, Dec(131072)) : name \in Names, rd \in SectorTokens}
    \cup {Row(14, name, Dec(262144), wr) : name \in Names, wr \in SectorTokens}
    \cup {ExampleRow}

\* The lines of the multi-line files.
CoreRows ==
    {ExampleRow,
     Row(18, NameSlash, Dec(262144), Dec(131072)),
     Row(13, NameSda, Dec(262144), Dec(131072)),
     Row(14, NameSda, TokX, Dec(131072)),
     Row(14, NameNul, Dec(262144), Dec(131072)),
     Row(14, NameSda, Tok2p54, TokMinus5)}

\* The descriptor paths the filesystem may hold: those of the devices, and
\* one under the untransformed name of the device with slashes.
NameBang == <<"c", "!", "0", "!", "d">>
DevicePaths == {SysBlock \o n \o SlashDevice : n \in {NameSda, NameBang}}
SysPaths == DevicePaths \cup {SysBlock \o NameSlash \o SlashDevice}

RECURSIVE SeqsUpTo(_, _)
SeqsUpTo(S, n) == IF n = 0 THEN {<<>>}
                  ELSE LET shorter == SeqsUpTo(S, n - 1)
                       IN  shorter \cup {Append(q, x) : q \in shorter, x \in S}

InitCalls ==
    /\ pc = [c \in Calls |-> "start"]
    /\ line_no = [c \in Calls |-> 0]
    /\ viostats = [c \in Calls |-> <<>>]
    /\ result = [c \in Calls |-> Pending]
    /\ accessed = <<>>

InitEnv(tables, paths) ==
    /\ diskstats \in tables
    /\ file = [i \in 1..Len(diskstats) |-> Render(diskstats[i])]
    /\ fault \in -1..(Len(diskstats) + 1)
    /\ sysfs \in SUBSET paths
    /\ overflow_checks \in BOOLEAN

\* Files of up to MaxLines lines.
Init == InitEnv(SeqsUpTo(CoreRows, MaxLines), DevicePaths) /\ InitCalls

\* Files of one line, of every shape.
InitRow == InitEnv({<<r>> : r \in AllRows}, SysPaths) /\ InitCalls

\* ---------------------------------------------------------------------
\* Operations
\* ---------------------------------------------------------------------

\* The call ends: the locals are dropped and the caller receives res.
Finish(c, how, res) ==
    /\ pc' = [pc EXCEPT ![c] = how]
    /\ viostats' = [viostats EXCEPT ![c] = <<>>]
    /\ result' = [result EXCEPT ![c] = res]

\* get_iostats, up to the loop: File::open(...)?
get_iostats_open ==
    /\ pc["get_iostats"] = "start"
    /\ IF File_open.ok
       THEN /\ pc' = [pc EXCEPT !["get_iostats"] = "loop"]
            /\ UNCHANGED <<viostats, result>>
       ELSE Finish("get_iostats", "returned", Err("io"))
    /\ UNCHANGED <<env, line_no, accessed>>

\* get_iostats: one evaluation of the loop condition and, when a line was
\* read, one iteration of the loop body.
get_iostats_read_line ==
    /\ pc["get_iostats"] = "loop"
    /\ \E c \in {"get_iostats"} :
       \E n \in {line_no[c] + 1} :
       \E rd \in {read_line(n)} :
       \E fields \in {split_whitespace(rd.line)} :
       \E name \in {nth(fields, name_nth)} :
       \E byte_r \in {nth(name.rest, byte_r_nth)} :
       \E byte_w \in {nth(byte_r.rest, byte_w_nth)} :
           IF ~rd.ok
           THEN Finish(c, "returned", Err("io")) /\ UNCHANGED line_no
           ELSE IF rd.bytes = 0
           THEN Finish(c, "returned", Ok(viostats[c])) /\ UNCHANGED line_no
           ELSE IF ~name.some \/ ~byte_r.some \/ ~byte_w.some
           THEN /\ Finish(c, "panicked", Panic("unwrap_none"))
                /\ line_no' = [line_no EXCEPT ![c] = n]
           ELSE IF count(byte_w.rest) < min_remaining
           THEN /\ line_no' = [line_no EXCEPT ![c] = n]
                /\ UNCHANGED <<pc, viostats, result>>
           ELSE \E io \in {new_IoStats(name.item, byte_r.item, byte_w.item)} :
                    /\ line_no' = [line_no EXCEPT ![c] = n]
                    /\ IF io.panic
                       THEN Finish(c, "panicked", Panic(io.cause))
                       ELSE /\ viostats' = [viostats EXCEPT ![c] = Append(@, io.value)]
                            /\ UNCHANGED <<pc, result>>
    /\ UNCHANGED <<env, accessed>>

\* get_iostats_physical, up to the loop: File::open(...)?
get_iostats_physical_open ==
    /\ pc["get_iostats_physical"] = "start"
    /\ IF File_open.ok
       THEN /\ pc' = [pc EXCEPT !["get_iostats_physical"] = "loop"]
            /\ UNCHANGED <<viostats, result>>
       ELSE Finish("get_iostats_physical", "returned", Err("io"))
    /\ UNCHANGED <<env, line_no, accessed>>

\* get_iostats_physical: one evaluation of the loop condition and, when a
\* line was read, one iteration of the loop body.
get_iostats_physical_read_line ==
    /\ pc["get_iostats_physical"] = "loop"
    /\ \E c \in {"get_iostats_physical"} :
       \E n \in {line_no[c] + 1} :
       \E rd \in {read_line(n)} :
       \E fields \in {split_whitespace(rd.line)} :
       \E name \in {nth(fields, name_nth)} :
       \E byte_r \in {nth(name.rest, byte_r_nth)} :
       \E byte_w \in {nth(byte_r.rest, byte_w_nth)} :
           IF ~rd.ok
           THEN Finish(c, "returned", Err("io")) /\ UNCHANGED <<line_no, accessed>>
           ELSE IF rd.bytes = 0
           THEN Finish(c, "returned", Ok(viostats[c])) /\ UNCHANGED <<line_no, accessed>>
           ELSE IF ~name.some \/ ~byte_r.some \/ ~byte_w.some
           THEN /\ Finish(c, "panicked", Panic("unwrap_none"))
                /\ line_no' = [line_no EXCEPT ![c] = n]
                /\ UNCHANGED accessed
           ELSE IF count(byte_w.rest) < min_remaining
           THEN /\ line_no' = [line_no EXCEPT ![c] = n]
                /\ UNCHANGED <<pc, viostats, result, accessed>>
           ELSE \E path \in {CString_new(sysfs_path(name.item))} :
                    /\ line_no' = [line_no EXCEPT ![c] = n]
                    /\ IF ~path.ok
                       THEN Finish(c, "returned", Err("nul")) /\ UNCHANGED accessed
                       ELSE /\ accessed' = Append(accessed, path.value)
                            /\ IF access(path.value) # 0
                               THEN UNCHANGED <<pc, viostats, result>>
                               ELSE \E io \in {new_IoStats(name.item, byte_r.item,
                                                           byte_w.item)} :
                                        IF io.panic
                                        THEN Finish(c, "panicked", Panic(io.cause))
                                        ELSE /\ viostats' = [viostats EXCEPT
                                                               ![c] = Append(@, io.value)]
                                             /\ UNCHANGED <<pc, result>>
    /\ UNCHANGED env

Next ==
    \/ get_iostats_open
    \/ get_iostats_read_line
    \/ get_iostats_physical_open
    \/ get_iostats_physical_read_line

\* ---------------------------------------------------------------------
\* What the lines say, read off the kernel's table without decoding text
\* ---------------------------------------------------------------------

IsSmallDecimal(tok) ==
    /\ Len(tok) \in 1..6
    /\ \A i \in 1..Len(tok) : \E d \in 1..10 : Digits[d] = tok[i]

RECURSIVE DecimalValue(_)
DecimalValue(tok) ==
    IF tok = <<>> THEN 0
    ELSE 10 * DecimalValue(SubSeq(tok, 1, Len(tok) - 1))
         + (CHOOSE d \in 0..9 : Digits[d + 1] = tok[Len(tok)])

\* The tokens that denote a 64-bit signed integer.
Numeric(tok) ==
    IsSmallDecimal(tok)
    \/ tok \in {TokMinus5, TokPlus7, Tok2p54, TokI64Max, TokI64Min}

\* 512 times the token's value, in 64-bit two's complement.
BytesOf(tok) ==
    IF IsSmallDecimal(tok) THEN I64Of(512 * DecimalValue(tok))
    ELSE CASE tok = TokMinus5 -> I64Of(-2560)
           [] tok = TokPlus7 -> I64Of(3584)
           [] tok = Tok2p54 -> <<-Limb, 0, 0>>
           [] tok = TokI64Max -> I64Of(-512)
           [] tok = TokI64Min -> I64Zero

\* Field k of a line, k counted from 0.
Field(row, k) == row[k + 1]

HasNul(name) == \E i \in 1..Len(name) : name[i] = NUL

\* The descriptor path of a device: its name with "!" for every "/".
DescriptorPath(name) ==
    SysBlock \o [i \in 1..Len(name) |-> IF name[i] = "/" THEN "!" ELSE name[i]]
    \o SlashDevice

Complete(row) == Len(row) >= 14
Candidate(row) == Complete(row) /\ ~HasNul(Field(row, 2))
Physical(row) == Candidate(row) /\ DescriptorPath(Field(row, 2)) \in sysfs
BadSectors(row) == ~Numeric(Field(row, 5)) \/ ~Numeric(Field(row, 9))

\* The record of a line under the kernel's layout (sectors written in
\* field 9) and under the layout with sectors written in field 6.
RecordOf(row) == [device_name |-> Field(row, 2),
                  bytes_read |-> BytesOf(Field(row, 5)),
                  bytes_wrtn |-> BytesOf(Field(row, 9))]

RecordOf6(row) == [device_name |-> Field(row, 2),
                   bytes_read |-> BytesOf(Field(row, 5)),
                   bytes_wrtn |-> BytesOf(Field(row, 6))]

\* The lines a call has read, and the records it holds or has returned.
RowsRead(c) == SubSeq(diskstats, 1, line_no[c])
Live(c) == result[c].tag \in {"Pending", "Ok"}
Records(c) == IF result[c].tag = "Ok" THEN result[c].value ELSE viostats[c]
Finished(c) == pc[c] \in {"returned", "panicked"}

CompleteRows(c) == SelectSeq(RowsRead(c), Complete)
PhysicalRows(c) == SelectSeq(RowsRead(c), Physical)
CandidateRows(c) == SelectSeq(RowsRead(c), Candidate)

ExampleRecord == [device_name |-> NameSda,
                  bytes_read |-> I64Of(819200),
                  bytes_wrtn |-> I64Of(0)]

\* ---------------------------------------------------------------------
\* Properties
\* ---------------------------------------------------------------------

\* C1 (as stated): every record get_iostats emits for a line of at least 14
\* fields has the name of field 2, 512 times field 5 as bytes_read and 512
\* times field 6 as bytes_wrtn.
C1_Field6 ==
    Live("get_iostats") =>
        Records("get_iostats") =
            [i \in 1..Len(CompleteRows("get_iostats")) |->
                RecordOf6(CompleteRows("get_iostats")[i])]

\* C1 (amended): every record get_iostats emits for a line of at least 14
\* fields has the name of field 2, 512 times field 5 as bytes_read and 512
\* times field 9 as bytes_wrtn, the products in 64-bit two's complement.
C1_Field9 ==
    Live("get_iostats") =>
        Records("get_iostats") =
            [i \in 1..Len(CompleteRows("get_iostats")) |->
                RecordOf(CompleteRows("get_iostats")[i])]

\* get_iostats returned the record of a complete line whose fields 6 and 9
\* differ.
C1_Witness ==
    /\ result["get_iostats"].tag = "Ok"
    /\ Len(result["get_iostats"].value) = 1
    /\ Len(diskstats) = 1
    /\ Complete(diskstats[1])
    /\ Field(diskstats[1], 6) # Field(diskstats[1], 9)

\* C2: a line with fewer than 14 fields makes neither call panic or fail,
\* and adds no record.
C2_ShortLineSkipped ==
    \A c \in Calls :
        (line_no[c] >= 1 /\ ~Complete(diskstats[line_no[c]])) =>
            /\ result[c].tag # "Panic"
            /\ result[c].cause # "nul"
            /\ Live(c) => Len(Records(c)) <= Len(CompleteRows(c))

\* C3: on a file of N lines with at least 14 fields and numeric sector
\* fields, read without an I/O failure, get_iostats returns Ok with the N
\* records of the lines, in file order.
C3_AllLinesReturned ==
    (/\ Finished("get_iostats")
     /\ fault = -1
     /\ \A i \in 1..Len(diskstats) :
            /\ Complete(diskstats[i])
            /\ Numeric(Field(diskstats[i], 5))
            /\ Numeric(Field(diskstats[i], 9)))
    => /\ result["get_iostats"].tag = "Ok"
       /\ result["get_iostats"].value =
              [i \in 1..Len(diskstats) |-> RecordOf(diskstats[i])]

\* C4: when both calls return Ok, the result of get_iostats_physical is the
\* result of get_iostats restricted, in order, to the records whose
\* descriptor path exists.
DescriptorExists(rec) == DescriptorPath(rec.device_name) \in sysfs

C4_PhysicalIsFilteredAll ==
    (result["get_iostats"].tag = "Ok" /\ result["get_iostats_physical"].tag = "Ok")
    => result["get_iostats_physical"].value =
           SelectSeq(result["get_iostats"].value, DescriptorExists)

\* Both calls returned, and the filter dropped one of two records.
C4_Witness ==
    /\ result["get_iostats"].tag = "Ok"
    /\ result["get_iostats_physical"].tag = "Ok"
    /\ Len(result["get_iostats"].value) = 2
    /\ Len(result["get_iostats_physical"].value) = 1

\* C5: the paths get_iostats_physical tests are /sys/block/<name>/device
\* with "!" for every "/" of the name, one per candidate line in order, and
\* the records it holds carry the names as the lines give them.
C5_PathTransformedNameKept ==
    /\ accessed = [i \in 1..Len(CandidateRows("get_iostats_physical")) |->
                     DescriptorPath(Field(CandidateRows("get_iostats_physical")[i], 2))]
    /\ Live("get_iostats_physical") =>
           [i \in 1..Len(Records("get_iostats_physical")) |->
                Records("get_iostats_physical")[i].device_name]
           = [i \in 1..Len(PhysicalRows("get_iostats_physical")) |->
                Field(PhysicalRows("get_iostats_physical")[i], 2)]

\* get_iostats_physical returned a record under a name with slashes.
C5_Witness ==
    /\ result["get_iostats_physical"].tag = "Ok"
    /\ \E i \in 1..Len(result["get_iostats_physical"].value) :
           result["get_iostats_physical"].value[i].device_name = NameSlash
    /\ \E i \in 1..Len(accessed) :
           accessed[i] = SysBlock \o NameBang \o SlashDevice

\* C6: the step in which File::open or read_line fails ends the call with
\* an I/O error and no records.
C6_IoFailureReturnsErr ==
    [][\A c \in Calls :
          (\/ pc[c] = "start" /\ pc'[c] # "start" /\ fault = 0
           \/ /\ pc[c] = "loop"
              /\ (pc'[c] # "loop" \/ line_no'[c] # line_no[c])
              /\ fault = line_no[c] + 1)
          => /\ pc'[c] = "returned"
             /\ result'[c] = [tag |-> "Err", value |-> <<>>, cause |-> "io"]
             /\ line_no'[c] = line_no[c]]_vars

\* A read failed after the example line had given a record.
C6_Witness ==
    \E c \in Calls :
        /\ result[c].tag = "Err"
        /\ result[c].cause = "io"
        /\ line_no[c] >= 1
        /\ diskstats[1] = ExampleRow
        /\ (c = "get_iostats_physical" => Physical(ExampleRow))

\* C7: once get_iostats_physical has read a line of at least 14 fields
\* whose name holds a 0 byte, that line is its last and the call has
\* returned an error without records.
C7_NulNameIsError ==
    \A i \in 1..line_no["get_iostats_physical"] :
        (Complete(diskstats[i]) /\ HasNul(Field(diskstats[i], 2)))
        => /\ i = line_no["get_iostats_physical"]
           /\ pc["get_iostats_physical"] = "returned"
           /\ result["get_iostats_physical"] =
                  [tag |-> "Err", value |-> <<>>, cause |-> "nul"]

\* The error arose on a second line.
C7_Witness ==
    /\ result["get_iostats_physical"].cause = "nul"
    /\ line_no["get_iostats_physical"] = 2

\* C8: no record has a negative bytes_read or bytes_wrtn.
C8_NonNegative ==
    \A c \in Calls : \A i \in 1..Len(Records(c)) :
        /\ ~i64_is_negative(Records(c)[i].bytes_read)
        /\ ~i64_is_negative(Records(c)[i].bytes_wrtn)

\* C9, the part common to the claim and its amendment: in get_iostats a
\* line of at least 14 fields with an unparsable sector field is the last
\* line read and the call has panicked; in neither call does a shorter
\* line end in a panic over an unparsable field.
C9_Common ==
    /\ \A i \in 1..line_no["get_iostats"] :
           (Complete(diskstats[i]) /\ BadSectors(diskstats[i]))
           => (i = line_no["get_iostats"] /\ result["get_iostats"].tag = "Panic")
    /\ \A c \in Calls :
           (result[c].tag = "Panic" /\ result[c].cause = "parse")
           => Complete(diskstats[line_no[c]])

\* C9 (as stated): the same holds of get_iostats_physical.
C9_BothAbort ==
    /\ C9_Common
    /\ \A i \in 1..line_no["get_iostats_physical"] :
           (Complete(diskstats[i]) /\ BadSectors(diskstats[i]))
           => /\ i = line_no["get_iostats_physical"]
              /\ result["get_iostats_physical"].tag = "Panic"

\* C9 (amended): in get_iostats_physical such a line ends the call with an
\* error when its name holds a 0 byte, with a panic when its descriptor
\* path exists, and is skipped when the path does not exist.
C9_PhysicalAbortsIfPresent ==
    /\ C9_Common
    /\ \A i \in 1..line_no["get_iostats_physical"] :
           (Complete(diskstats[i]) /\ BadSectors(diskstats[i]))
           => IF HasNul(Field(diskstats[i], 2))
              THEN /\ i = line_no["get_iostats_physical"]
                   /\ result["get_iostats_physical"].cause = "nul"
              ELSE IF Physical(diskstats[i])
              THEN /\ i = line_no["get_iostats_physical"]
                   /\ result["get_iostats_physical"].tag = "Panic"
              ELSE ~(/\ i = line_no["get_iostats_physical"]
                     /\ result["get_iostats_physical"].tag \in {"Panic", "Err"}
                     /\ result["get_iostats_physical"].cause # "io")

\* get_iostats panicked on a line that get_iostats_physical skipped and
\* went on to return Ok.
C9_Witness ==
    /\ Len(diskstats) = 1
    /\ Complete(diskstats[1])
    /\ BadSectors(diskstats[1])
    /\ result["get_iostats"].tag = "Panic"
    /\ result["get_iostats"].cause = "parse"
    /\ result["get_iostats_physical"] = [tag |-> "Ok", value |-> <<>>, cause |-> "none"]

\* C10: the records of both calls carry field 2 as name, 512 times field 5
\* as bytes_read and 512 times field 9 as bytes_wrtn, for the lines each
\* call keeps; the example line gives {sda, 819200, 0}.
C10_Offsets ==
    /\ RecordOf(ExampleRow) = ExampleRecord
    /\ Live("get_iostats") =>
           Records("get_iostats") =
               [i \in 1..Len(CompleteRows("get_iostats")) |->
                   RecordOf(CompleteRows("get_iostats")[i])]
    /\ Live("get_iostats_physical") =>
           Records("get_iostats_physical") =
               [i \in 1..Len(PhysicalRows("get_iostats_physical")) |->
                   RecordOf(PhysicalRows("get_iostats_physical")[i])]

\* Both calls returned the record of the example line.
C10_Witness ==
    /\ diskstats = <<ExampleRow>>
    /\ result["get_iostats"] = [tag |-> "Ok", value |-> <<ExampleRecord>>, cause |-> "none"]
    /\ result["get_iostats_physical"] = result["get_iostats"]

Spec == Init /\ [][Next]_vars

SpecRow == InitRow /\ [][Next]_vars
====
